---- MODULE Spec2Model ----
(***************************************************************************)
(* make_graph.py: the report script of the W7-X adaptive turbulence        *)
(* control simulation.  It is one straight-line batch run: load the table, *)
(* find the control pulses in the turbulence column (indicator > 10, diff, *)
(* rising edges, falling edges), print the pulse count, shade the pulses,  *)
(* save the figure, print the statistics.                                  *)
(*                                                                         *)
(* The state is the script's module-level names plus what the run has put  *)
(* on the console and on disk, and the exception that ended it, if any.    *)
(* Times and turbulence values are integers here; only their order and     *)
(* their comparison with the threshold enter the computation.              *)
(*                                                                         *)
(* In the listing the two loop headers of lines 77 and 79 stand at column  *)
(* 0; the model reads them as the nested loop they spell (for each pair,   *)
(* for each axis, shade).                                                  *)
(***************************************************************************)
EXTENDS Integers, Sequences, FiniteSets

VARIABLES df, pc, pulse_active, pulse_changes, pulse_starts, pulse_ends,
          n_pulses, shaded, image_saved, stdout, error

vars == <<df, pc, pulse_active, pulse_changes, pulse_starts, pulse_ends,
          n_pulses, shaded, image_saved, stdout, error>>

---------------------------------------------------------------------------
(* Bounds of the input table and the program's literals.                   *)

MaxLen == 5

Threshold == 10

\* turbulence readings: below, exactly at, and above the threshold
Values == {1, Threshold, 15}

\* time step between consecutive rows: backwards, repeated, forwards
DeltaT == {-1, 0, 1}

\* the worked example: seven rows, two pulses
Scenario ==
    << [time |-> 0, turbulence |-> 1],  [time |-> 1, turbulence |-> 1],
       [time |-> 2, turbulence |-> 15], [time |-> 3, turbulence |-> 15],
       [time |-> 4, turbulence |-> 1],  [time |-> 5, turbulence |-> 20],
       [time |-> 6, turbulence |-> 1] >>

---------------------------------------------------------------------------
(* pandas / Python primitives the script uses.                             *)

\* the missing value diff() puts in the first row
NaN == [nan |-> TRUE]

Num(v) == [nan |-> FALSE, val |-> v]

\* an inclusive comparison: >= 10
ActiveInclusive(v) == v >= Threshold

\* df['turbulence'] > 10, row by row
Active(v) == v > Threshold

\* Series.astype(int)
AsInt(b) == IF b THEN 1 ELSE 0

\* a diff taken the wrong way round: s[i-1] - s[i]
DiffBackward(s) ==
    [i \in 1..Len(s) |-> IF i = 1 THEN NaN ELSE Num(s[i-1] - s[i])]

\* Series.diff(): NaN in the first row, then s[i] - s[i-1]
Diff(s) ==
    [i \in 1..Len(s) |-> IF i = 1 THEN NaN ELSE Num(s[i] - s[i-1])]

\* df['time'][mask].values: the times of the rows where mask holds, in order
RECURSIVE TimesWhere(_, _, _)
TimesWhere(table, mask, i) ==
    IF i > Len(table) THEN <<>>
    ELSE (IF mask[i] THEN <<table[i].time>> ELSE <<>>)
         \o TimesWhere(table, mask, i + 1)

\* pulse_changes == k; a NaN row compares unequal to every number
EqualsMask(changes, k) == [i \in 1..Len(changes) |-> changes[i] = Num(k)]

PulseStarts(table, changes) == TimesWhere(table, EqualsMask(changes, 1), 1)

PulseEnds(table, changes) == TimesWhere(table, EqualsMask(changes, -1), 1)

Min(a, b) == IF a <= b THEN a ELSE b

\* a count of the pairs zip() yields instead of the rising edges
NPulsesPaired(starts) == Min(Len(starts), Len(pulse_ends))

\* len(pulse_starts)
NPulses(starts) == Len(starts)

\* zip(): pairs up to the shorter of the two
Zip(a, b) == [k \in 1..Min(Len(a), Len(b)) |-> <<a[k], b[k]>>]

---------------------------------------------------------------------------
(* The run.                                                                *)

RECURSIVE TimeAt(_, _)
TimeAt(d, i) == IF i = 1 THEN 0 ELSE TimeAt(d, i - 1) + d[i]

Table(len, v, d) ==
    [i \in 1..len |-> [time |-> TimeAt(d, i), turbulence |-> v[i]]]

Inputs ==
    { Table(len, v, d) : <<len, v, d>> \in
        UNION { {len} \X [1..len -> Values] \X [2..len -> DeltaT]
                : len \in 0..MaxLen } }

Init ==
    /\ df \in Inputs \cup {Scenario}
    /\ pc = "detect"
    /\ pulse_active = <<>>
    /\ pulse_changes = <<>>
    /\ pulse_starts = <<>>
    /\ pulse_ends = <<>>
    /\ n_pulses = 0
    /\ shaded = <<>>
    /\ image_saved = FALSE
    /\ stdout = <<>>
    /\ error = "none"

\* lines 57-63
DetectPulses ==
    /\ pc = "detect"
    /\ LET active  == [i \in 1..Len(df) |-> Active(df[i].turbulence)]
           changes == Diff([i \in 1..Len(df) |-> AsInt(active[i])])
       IN  /\ pulse_active' = active
           /\ pulse_changes' = changes
           /\ pulse_starts' = PulseStarts(df, changes)
           /\ pulse_ends' = PulseEnds(df, changes)
    /\ pc' = "count"
    /\ UNCHANGED <<df, n_pulses, shaded, image_saved, stdout, error>>

\* lines 69-71
CountPulses ==
    /\ pc = "count"
    /\ n_pulses' = NPulses(pulse_starts)
    /\ stdout' = Append(stdout, "n_pulses")
    /\ pc' = "shade"
    /\ UNCHANGED <<df, pulse_active, pulse_changes, pulse_starts, pulse_ends,
                   shaded, image_saved, error>>

\* lines 77-81: one span per zipped pair (drawn on every axis)
ShadePulses ==
    /\ pc = "shade"
    /\ shaded' = Zip(pulse_starts, pulse_ends)
    /\ pc' = "save"
    /\ UNCHANGED <<df, pulse_active, pulse_changes, pulse_starts, pulse_ends,
                   n_pulses, image_saved, stdout, error>>

\* lines 95-101
SaveFigure ==
    /\ pc = "save"
    /\ image_saved' = TRUE
    /\ stdout' = Append(stdout, "saved")
    /\ pc' = "stats"
    /\ UNCHANGED <<df, pulse_active, pulse_changes, pulse_starts, pulse_ends,
                   n_pulses, shaded, error>>

\* lines 107-111: the header, then iloc[-1] and iloc[0] of the column
PrintStats ==
    /\ pc = "stats"
    /\ \/ /\ Len(df) = 0
          /\ stdout' = Append(stdout, "header")
          /\ error' = "IndexError"
          /\ pc' = "aborted"
       \/ /\ Len(df) > 0
          /\ stdout' = stdout \o <<"header", "final", "ratio">>
          /\ error' = error
          /\ pc' = "spacing"
    /\ UNCHANGED <<df, pulse_active, pulse_changes, pulse_starts, pulse_ends,
                   n_pulses, shaded, image_saved>>

\* line 113: 10.0 / n_pulses, then the line is printed
PrintSpacing ==
    /\ pc = "spacing"
    /\ \/ /\ n_pulses = 0
          /\ stdout' = stdout
          /\ error' = "ZeroDivisionError"
          /\ pc' = "aborted"
       \/ /\ n_pulses # 0
          /\ stdout' = Append(stdout, "spacing")
          /\ error' = error
          /\ pc' = "done"
    /\ UNCHANGED <<df, pulse_active, pulse_changes, pulse_starts, pulse_ends,
                   n_pulses, shaded, image_saved>>

Next ==
    \/ DetectPulses
    \/ CountPulses
    \/ ShadePulses
    \/ SaveFigure
    \/ PrintStats
    \/ PrintSpacing

Spec == Init /\ [][Next]_vars

---------------------------------------------------------------------------
(* Vocabulary of the properties, stated on the table itself.               *)

N == Len(df)

\* row i is above the threshold
Above(i) == df[i].turbulence > Threshold

StrictlyIncreasing == \A i \in 1..(N - 1) : df[i].time < df[i + 1].time

\* a series the data model admits: non-empty, strictly increasing times
ValidSeries == N >= 1 /\ StrictlyIncreasing

\* the count has been taken and printed
Counted == pc \notin {"detect", "count"}

\* the intervals have been produced and shaded
ShadedDone == pc \notin {"detect", "count", "shade"}

\* the run is over, one way or the other
Finished == pc \in {"done", "aborted"}

\* row i opens a maximal run of rows above the threshold
RunStart(i) == Above(i) /\ (i = 1 \/ ~Above(i - 1))

NumRuns == Cardinality({i \in 1..N : RunStart(i)})

\* the last row of the run that row i is in
RECURSIVE RunLast(_)
RunLast(i) == IF i < N /\ Above(i + 1) THEN RunLast(i + 1) ELSE i

\* one (first active time, first inactive time after) per maximal run
RECURSIVE RunIntervals(_)
RunIntervals(i) ==
    IF i > N THEN <<>>
    ELSE (IF RunStart(i)
          THEN << <<df[i].time, df[RunLast(i) + 1].time>> >>
          ELSE <<>>) \o RunIntervals(i + 1)

\* time t lies in the half-open interval [start, end)
Inside(t, iv) == iv[1] <= t /\ t < iv[2]

AllOutputs == <<"n_pulses", "saved", "header", "final", "ratio", "spacing">>

---------------------------------------------------------------------------
(* The claims.                                                             *)

\* C1: for a non-empty series with strictly increasing times, every produced
\* interval has start < end, the intervals are sorted by start and do not
\* overlap, also when the first sample is already above the threshold.
C1_IntervalsWellFormed ==
    (ShadedDone /\ ValidSeries) =>
        /\ \A k \in 1..Len(shaded) : shaded[k][1] < shaded[k][2]
        /\ \A k, l \in 1..Len(shaded) :
              k < l => /\ shaded[k][1] <= shaded[l][1]
                       /\ shaded[k][2] <= shaded[l][1]

\* C2: every sample above the threshold lies inside exactly one produced
\* interval, every sample at or below it inside none.
C2_SamplesCovered ==
    (ShadedDone /\ ValidSeries) =>
        \A i \in 1..N :
            Cardinality({k \in 1..Len(shaded) : Inside(df[i].time, shaded[k])})
                = IF Above(i) THEN 1 ELSE 0

\* C3: a series entirely above the threshold yields exactly one interval,
\* from the first sample's time to the last sample's time.
C3_AllAboveOneInterval ==
    (ShadedDone /\ ValidSeries /\ \A i \in 1..N : Above(i)) =>
        shaded = << <<df[1].time, df[N].time>> >>

\* C4: with a pulse count of 0 the mean-spacing step ends in an explicit
\* DivisionUndefined signal, not in the interpreter's unguarded
\* divide-by-zero.
C4_ZeroCountSignalled ==
    (Finished /\ N >= 1 /\ n_pulses = 0) => error = "DivisionUndefined"

\* C5: a run produces all of its outputs or none: a run that aborts has
\* saved no image and printed no line, a run that completes has done all.
C5_AllOrNothing ==
    /\ pc = "aborted" => (~image_saved /\ stdout = <<>>)
    /\ pc = "done" => (image_saved /\ stdout = AllOutputs)

\* C6: when the first and the last sample are at or below the threshold, the
\* intervals are exactly one per maximal run of samples above it, from the
\* run's first active time to the time of the first inactive sample after
\* it, and the count is the number of runs; the worked example yields
\* [(2,4),(5,6)] and count 2.
C6_RunsBecomeIntervals ==
    (ShadedDone /\ N >= 1 /\ ~Above(1) /\ ~Above(N)) =>
        /\ shaded = RunIntervals(1)
        /\ n_pulses = NumRuns
        /\ df = Scenario => (shaded = << <<2, 4>>, <<5, 6>> >> /\ n_pulses = 2)

C6_Witness ==
    /\ pc = "done"
    /\ df = Scenario
    /\ Len(shaded) = 2

\* C7: a series with every value at or below the threshold yields no rising
\* edge, no falling edge and a pulse count of 0.
C7_NoneAboveNoPulse ==
    (Counted /\ \A i \in 1..N : ~Above(i)) =>
        /\ pulse_starts = <<>>
        /\ pulse_ends = <<>>
        /\ n_pulses = 0
        /\ shaded = <<>>

C7_Witness ==
    /\ ShadedDone
    /\ N >= 3
    /\ \A i \in 1..N : ~Above(i)
    /\ \E i, j \in 1..N : df[i].turbulence = Threshold /\ df[j].turbulence < Threshold
    /\ n_pulses = 0

\* C8: an empty series, or one with two consecutive samples of
\* non-increasing time, is refused with InvalidInput before any interval or
\* count is produced.
C8_InvalidInputRefused ==
    (pc # "detect" /\ ~ValidSeries) =>
        /\ error = "InvalidInput"
        /\ pc = "aborted"
        /\ stdout = <<>>
        /\ shaded = <<>>

C10_CountMatchesIntervals ==
    (ShadedDone /\ ValidSeries) => n_pulses = Len(shaded)

====
